---- MODULE Spec2Model ----
(***************************************************************************)
(* Model of rpdk.typescript.codegen.TypescriptLanguagePlugin: the package  *)
(* assembly pipeline (package, _remove_build_artifacts, _build,            *)
(* _pre_package, _recursive_relative_write), the build command             *)
(* composition, and the per-call initialisation of the plugin's fields     *)
(* from the project descriptor (init, generate, package).                  *)
(*                                                                         *)
(* Paths are sequences of name components; project.root of project p is    *)
(* <<p>>.  The filesystem maps each existing path to its kind and, for a   *)
(* symlink, its target.  A zip archive is the sequence of its entries, in  *)
(* the order they were written.  rglob yields a tree's paths in the        *)
(* directories' own order, here any order.  What the environment decides   *)
(* is a choice: how the build process ends and what it leaves under        *)
(* build/, whether rmtree is permitted, whether a file can be read.        *)
(***************************************************************************)
EXTENDS Naturals, Sequences, FiniteSets, TLC

\* Largest number of entries the host puts in a project tree before a call.
MaxEntries == 4

MAIN_HANDLER_FUNCTION == "TypeFunction"

\* Python's None, for an absent build command and an absent error.
None == "None"

\* None where a path is expected.
NoPath == <<>>

Projects == {"p1", "p2"}

\* The project whose tree the host edits in the packaging specifications.
HostProject == "p1"

VARIABLES
    fs,                     \* the filesystem: path -> [kind, target]
    settings,               \* project.settings of each project (a dict)
    answers,                \* what init() was last answered, per project
    package_root,           \* self.package_root
    use_docker,             \* self._use_docker
    build_command,          \* self._build_command
    pc,                     \* position of the running call
    project,                \* the project argument of the running call
    handler_package_path,   \* package(): local handler_package_path
    build_path,             \* package(): local build_path
    zip_file,               \* the archive argument (outer archive)
    zip_before,             \* what zip_file held when the call began
    base_path,              \* _recursive_relative_write(): base_path
    inner_zip,              \* _pre_package(): the nested archive
    pending,                \* paths src_path.rglob("*") has still to yield
    command,                \* the command line _build() executed
    build_result,           \* how the build process ended
    error,                  \* the exception the call raised, and its cause
    skipped_removal,        \* _remove_build_artifacts() logged "not found"
    stages                  \* the pipeline steps this call has invoked

vars == <<fs, settings, answers, package_root, use_docker, build_command, pc,
          project,
          handler_package_path, build_path, zip_file, zip_before, base_path,
          inner_zip, pending, command, build_result, error, skipped_removal,
          stages>>

plugin == <<package_root, use_docker, build_command>>
frame == <<project, handler_package_path, build_path>>

----------------------------------------------------------------------------
(* Paths                                                                   *)

root(p) == <<p>>

IsPrefix(a, b) == Len(a) <= Len(b) /\ SubSeq(b, 1, Len(a)) = a

Parent(q) == SubSeq(q, 1, Len(q) - 1)

\* path.relative_to(base_path); the callers only pass paths under base.
relative_to(path, base) == SubSeq(path, Len(base) + 1, Len(path))

\* str(path): the components joined by "/".
RECURSIVE Str(_)
Str(path) ==
    IF Len(path) = 0 THEN "."
    ELSE IF Len(path) = 1 THEN path[1]
    ELSE path[1] \o "/" \o Str(Tail(path))

----------------------------------------------------------------------------
(* The filesystem                                                          *)

Entry(kind, target) == [kind |-> kind, target |-> target]

Exists(f, q) == q \in DOMAIN f

IsRealDir(f, q) == Exists(f, q) /\ f[q].kind = "dir"

\* path.resolve(): a symlink is replaced by its target (no target of the
\* trees below is itself a symlink).
Resolve(f, q) == IF Exists(f, q) /\ f[q].kind = "symlink" THEN f[q].target ELSE q

\* path.is_dir(): follows symlinks; false for a missing or dangling path.
is_dir(f, q) ==
    /\ Exists(f, q)
    /\ Exists(f, Resolve(f, q))
    /\ f[Resolve(f, q)].kind = "dir"

\* path.is_file(): follows symlinks; false for a missing or dangling path.
is_file(f, q) ==
    /\ Exists(f, q)
    /\ Exists(f, Resolve(f, q))
    /\ f[Resolve(f, q)].kind = "file"

\* src_path.rglob("*"): every entry below src_path, reached through real
\* directories only (a symlink to a directory is yielded, not entered).
rglob(f, src_path) ==
    IF ~IsRealDir(f, src_path) THEN {}
    ELSE {q \in DOMAIN f :
            /\ IsPrefix(src_path, q)
            /\ q # src_path
            /\ \A n \in Len(src_path) .. (Len(q) - 1) :
                    IsRealDir(f, SubSeq(q, 1, n))}

\* The tree es (a set of [rel, kind, target]) placed under base.
Tree(base, es) ==
    [q \in {base \o e.rel : e \in es} |->
        LET e == CHOOSE x \in es : base \o x.rel = q
        IN  Entry(e.kind, IF e.kind = "symlink" THEN base \o e.target ELSE <<>>)]

Ent(rel, kind, target) == [rel |-> rel, kind |-> kind, target |-> target]

----------------------------------------------------------------------------
(* Zip archives                                                            *)

\* An entry written from a file holds that file's bytes (named by the file's
\* resolved path); the nested archive's entry holds the nested entries.
FileEntry(name, path) == [name |-> name, bytes |-> path, members |-> <<>>]

BlobEntry(name, archive) == [name |-> name, bytes |-> <<>>, members |-> archive]

Names(archive) == {archive[i].name : i \in 1 .. Len(archive)}

\* Variant of WriteOne that tests the path's own kind, not what it resolves to.
WriteSkippingSymlinks(f, path, base, archive) ==
    IF Exists(f, path) /\ f[path].kind = "file"
    THEN Append(archive, FileEntry(Str(relative_to(path, base)), path))
    ELSE archive

\* Variant of WriteOne without the is_file() test.
WriteEverything(f, path, base, archive) ==
    Append(archive, FileEntry(Str(relative_to(path, base)), Resolve(f, path)))

\* Variant of WriteOne that names the entry by the whole path.
WriteAbsolute(f, path, base, archive) ==
    IF is_file(f, path)
    THEN Append(archive, FileEntry(Str(path), Resolve(f, path)))
    ELSE archive

\* Body of the loop of _recursive_relative_write for one yielded path.
WriteOne(f, path, base, archive) ==
    IF is_file(f, path)
    THEN Append(archive, FileEntry(Str(relative_to(path, base)), Resolve(f, path)))
    ELSE archive

----------------------------------------------------------------------------
(* Project settings and the plugin's fields                                *)

NoSettings == [k \in {} |-> None]

\* dict.get(key, default)
Get(d, key, default) == IF key \in DOMAIN d THEN d[key] ELSE default

\* d[key] = value
Put(d, key, value) == (key :> value) @@ d

BuildCommands == {"", "npm run build"}

SettingsChoices ==
    {NoSettings}
    \cup {Put(NoSettings, "useDocker", u) : u \in BOOLEAN}
    \cup {Put(NoSettings, "buildCommand", b) : b \in BuildCommands}
    \cup {Put(Put(NoSettings, "useDocker", u), "buildCommand", b) :
            u \in BOOLEAN, b \in BuildCommands}

\* validate_no(value), value.lower() taken on the answers below
Answers == {"", "y", "n", "N", "no", "NO", "nope"}

lower(value) ==
    CASE value = "N" -> "n"
      [] value = "NO" -> "no"
      [] OTHER -> value

validate_no(value) == lower(value) \notin {"n", "no"}

\* Python truthiness of a string or None.
Truthy(s) == s # None /\ s # ""

NoError == [type |-> None, message |-> None, cause |-> None]

Raised(type, message, cause) == [type |-> type, message |-> message, cause |-> cause]

----------------------------------------------------------------------------
(* TypescriptLanguagePlugin                                                *)

\* Variant of init_from_project that keeps the fields of the last call.
init_from_project_stale(p) ==
    UNCHANGED plugin

\* _init_from_project(project); namespace and package_name are not modelled.
init_from_project(p) ==
    /\ use_docker' = Get(settings[p], "useDocker", TRUE)
    /\ package_root' = root(p) \o <<"src">>
    /\ build_command' = Get(settings[p], "buildCommand", None)

\* Variant of make_build_command that takes any override, the empty one too.
make_build_command_verbatim(base, override) ==
    IF override # None THEN override
    ELSE "sam build --build-dir " \o Str(base) \o "/build"

\* _make_build_command(base_path, build_command)
make_build_command(base, override) ==
    IF Truthy(override) THEN override
    ELSE "sam build --build-dir " \o Str(base) \o "/build"

\* _build(): the command line handed to /bin/bash -c
build_command_line(base, override, container) ==
    LET composed == make_build_command(base, override)
        flagged == IF container THEN composed \o " --use-container" ELSE composed
    IN  flagged \o " " \o MAIN_HANDLER_FUNCTION

\* How subprocess_run can end: exit status 0, a nonzero exit status
\* (CalledProcessError under check=True), or no /bin/bash (FileNotFoundError).
ProcessResults == {"exit0", "CalledProcessError", "FileNotFoundError"}

\* Variant of build_failed without check=True.
build_failed_unchecked(result) == result = "FileNotFoundError"

\* _build(): the except clause, given check=True
build_failed(result) == result \in {"FileNotFoundError", "CalledProcessError"}

\* What the build tool may leave under build_path.
NoOutput == {}

EmptyBuildDir == {Ent(<<>>, "dir", <<>>)}

EmptyHandlerDir == EmptyBuildDir \cup {Ent(<<MAIN_HANDLER_FUNCTION>>, "dir", <<>>)}

HandlerOutput ==
    EmptyHandlerDir \cup
    { Ent(<<MAIN_HANDLER_FUNCTION, "index.js">>, "file", <<>>),
      Ent(<<"template.yaml">>, "file", <<>>) }

LinkedOutput ==
    HandlerOutput \cup
    { Ent(<<MAIN_HANDLER_FUNCTION, "node_modules">>, "dir", <<>>),
      Ent(<<MAIN_HANDLER_FUNCTION, "node_modules", "dep.js">>, "file", <<>>),
      Ent(<<MAIN_HANDLER_FUNCTION, "dep">>, "symlink",
          <<MAIN_HANDLER_FUNCTION, "node_modules", "dep.js">>) }

BuildOutputs == {NoOutput, EmptyBuildDir, EmptyHandlerDir, HandlerOutput, LinkedOutput}

\* What the build leaves: nothing when /bin/bash could not be run.
Left(result, output) == IF result = "FileNotFoundError" THEN NoOutput ELSE output

\* f without deps_path and everything below it.
Without(f, deps_path) ==
    [q \in {x \in DOMAIN f : ~IsPrefix(deps_path, x)} |-> f[q]]

\* shutil.rmtree(deps_path): the filesystem it leaves and what it raises.
rmtree(f, deps_path) ==
    IF ~Exists(f, deps_path)
    THEN {[fs |-> f, raised |-> "FileNotFoundError"]}
    ELSE IF f[deps_path].kind = "dir"
    THEN {[fs |-> Without(f, deps_path), raised |-> None],
          [fs |-> f, raised |-> "PermissionError"]}
    ELSE IF f[deps_path].kind = "symlink"
    THEN {[fs |-> f, raised |-> "OSError"]}
    ELSE {[fs |-> f, raised |-> "NotADirectoryError"]}

\* Variant of remove_caught without the except clause.
remove_caught_none(raised) == raised = None

\* _remove_build_artifacts(): the exceptions that do not leave it
remove_caught(raised) == raised \in {None, "FileNotFoundError"}

\* zip_file.write(path.resolve(), ...) opens the file: it may be unreadable.
ReadOutcomes(f, path) == IF is_file(f, path) THEN {TRUE, FALSE} ELSE {TRUE}

\* Variant of writestr that leaves out an empty nested archive.
writestr_nonempty(archive, name, data) ==
    IF data = <<>> THEN archive ELSE Append(archive, BlobEntry(name, data))

\* zip_file.writestr(name, data), data being a nested archive's bytes
writestr(archive, name, data) == Append(archive, BlobEntry(name, data))

\* Variant of src_base that names the entries relative to the package root.
src_base_package_root(p) == root(p) \o <<"src">>

\* package(): the base_path of the source tree's write, project.root
src_base(p) == root(p)

CallStates == {"idle", "done", "raised", "tree_done"}

WritingStates == {"pre_package_write", "write_src_write", "write_tree_write"}

----------------------------------------------------------------------------
(* The host: the project trees it prepares between calls                   *)

HostEntries ==
    { Ent(<<"src">>, "dir", <<>>),
      Ent(<<"src", "handlers.ts">>, "file", <<>>),
      Ent(<<"src", "models.ts">>, "file", <<>>),
      Ent(<<"src", "lib">>, "dir", <<>>),
      Ent(<<"src", "lib", "util.ts">>, "file", <<>>),
      Ent(<<"src", "ResourceProvider.zip">>, "file", <<>>),
      Ent(<<"src", "link">>, "symlink", <<"src", "handlers.ts">>),
      Ent(<<"src", "link">>, "symlink", <<"package.json">>),
      Ent(<<"src", "link">>, "symlink", <<"src", "lib">>),
      Ent(<<"src", "link">>, "symlink", <<"missing">>),
      Ent(<<"src", "pipe">>, "fifo", <<>>),
      Ent(<<"package.json">>, "file", <<>>),
      Ent(<<"build">>, "file", <<>>) }

\* The entries of project p's tree, a build's output aside.
HostCount(f, p) ==
    Cardinality({q \in DOMAIN f :
        /\ IsPrefix(root(p), q)
        /\ q # root(p)
        /\ ~(IsRealDir(f, root(p) \o <<"build">>) /\ IsPrefix(root(p) \o <<"build">>, q))})

NoFrame ==
    /\ project' = None
    /\ handler_package_path' = NoPath
    /\ build_path' = NoPath
    /\ zip_file' = <<>>
    /\ zip_before' = <<>>
    /\ base_path' = NoPath
    /\ inner_zip' = <<>>
    /\ pending' = {}
    /\ command' = None
    /\ build_result' = None
    /\ skipped_removal' = FALSE
    /\ stages' = <<>>

\* The host adds one entry to the tree of project p; whatever the last call
\* returned has been consumed.
HostWrite(p) ==
    /\ pc \in CallStates
    /\ HostCount(fs, p) < MaxEntries
    /\ \E e \in HostEntries :
        /\ ~Exists(fs, root(p) \o e.rel)
        /\ IsRealDir(fs, Parent(root(p) \o e.rel))
        /\ fs' = Tree(root(p), {e}) @@ fs
    /\ NoFrame
    /\ pc' = "idle"
    /\ error' = NoError
    /\ UNCHANGED <<settings, answers, plugin>>

----------------------------------------------------------------------------
(* package(project, zip_file)                                              *)

\* package(), up to the call of _remove_build_artifacts; the caller hands in
\* an archive with no entry yet
PackageStart(p) ==
    /\ pc \in CallStates
    /\ init_from_project(p)
    /\ project' = p
    /\ handler_package_path' = package_root'
    /\ build_path' = root(p) \o <<"build">>
    /\ zip_file' = <<>>
    /\ zip_before' = <<>>
    /\ base_path' = NoPath
    /\ inner_zip' = <<>>
    /\ pending' = {}
    /\ command' = None
    /\ build_result' = None
    /\ error' = NoError
    /\ skipped_removal' = FALSE
    /\ stages' = <<>>
    /\ pc' = "remove_build_artifacts"
    /\ UNCHANGED <<fs, settings, answers>>

\* _remove_build_artifacts(build_path)
RemoveBuildArtifacts ==
    /\ pc = "remove_build_artifacts"
    /\ stages' = Append(stages, "remove_build_artifacts")
    /\ \E outcome \in rmtree(fs, build_path) :
        /\ fs' = outcome.fs
        /\ skipped_removal' = /\ outcome.raised = "FileNotFoundError"
                               /\ remove_caught(outcome.raised)
        /\ IF remove_caught(outcome.raised)
           THEN pc' = "build" /\ error' = NoError
           ELSE pc' = "raised" /\ error' = Raised(outcome.raised, None, None)
    /\ UNCHANGED <<settings, answers, plugin, frame, zip_file, zip_before,
                   base_path, inner_zip, pending, command, build_result>>

\* Variant of Build that runs the build again when it failed.
BuildRetrying(outputs) ==
    /\ pc = "build"
    /\ stages' = Append(stages, "build")
    /\ command' = build_command_line(root(project), build_command, use_docker)
    /\ \E result \in ProcessResults, output \in outputs :
        /\ build_result' = result
        /\ fs' = Tree(build_path, Left(result, output)) @@ fs
        /\ pc' = IF build_failed(result) THEN "build" ELSE "pre_package"
        /\ error' = NoError
    /\ UNCHANGED <<settings, answers, plugin, frame, zip_file, zip_before,
                   base_path, inner_zip, pending, skipped_removal>>

\* _build(project.root); the build tool leaves one of outputs under build_path
Build(outputs) ==
    /\ pc = "build"
    /\ stages' = Append(stages, "build")
    /\ command' = build_command_line(root(project), build_command, use_docker)
    /\ \E result \in ProcessResults, output \in outputs :
        /\ build_result' = result
        /\ fs' = Tree(build_path, Left(result, output)) @@ fs
        /\ IF build_failed(result)
           THEN /\ pc' = "raised"
                /\ error' = Raised("DownstreamError", "local build failed", result)
           ELSE /\ pc' = "pre_package"
                /\ error' = NoError
    /\ UNCHANGED <<settings, answers, plugin, frame, zip_file, zip_before,
                   base_path, inner_zip, pending, skipped_removal>>

\* _pre_package(build_path / MAIN_HANDLER_FUNCTION), up to the first file
PrePackage ==
    /\ pc = "pre_package"
    /\ stages' = Append(stages, "pre_package")
    /\ inner_zip' = <<>>
    /\ base_path' = build_path \o <<MAIN_HANDLER_FUNCTION>>
    /\ pending' = rglob(fs, build_path \o <<MAIN_HANDLER_FUNCTION>>)
    /\ pc' = "pre_package_write"
    /\ UNCHANGED <<fs, settings, answers, plugin, frame, zip_file, zip_before,
                   command, build_result, error, skipped_removal>>

\* _recursive_relative_write(): one turn of the loop, on the next path of
\* rglob (which yields in the directory's order, any order here)
WriteStep ==
    /\ pc \in WritingStates
    /\ \E path \in pending : \E readable \in ReadOutcomes(fs, path) :
        IF readable
        THEN /\ pending' = pending \ {path}
             /\ IF pc = "pre_package_write"
                THEN /\ inner_zip' = WriteOne(fs, path, base_path, inner_zip)
                     /\ zip_file' = zip_file
                ELSE /\ zip_file' = WriteOne(fs, path, base_path, zip_file)
                     /\ inner_zip' = inner_zip
             /\ UNCHANGED <<pc, error>>
        ELSE /\ pc' = "raised"
             /\ error' = Raised("PermissionError", None, None)
             /\ UNCHANGED <<zip_file, inner_zip, pending>>
    /\ UNCHANGED <<fs, settings, answers, plugin, frame, zip_before,
                   base_path, command, build_result, skipped_removal, stages>>

\* _pre_package(): the walk is over, the nested archive is closed and returned
PrePackageReturn ==
    /\ pc = "pre_package_write"
    /\ pending = {}
    /\ pc' = "writestr"
    /\ UNCHANGED <<fs, settings, answers, plugin, frame, zip_file, zip_before,
                   base_path, inner_zip, pending, command, build_result,
                   error, skipped_removal, stages>>

\* zip_file.writestr("ResourceProvider.zip", inner_zip.read())
WriteStr ==
    /\ pc = "writestr"
    /\ stages' = Append(stages, "writestr")
    /\ zip_file' = writestr(zip_file, "ResourceProvider.zip", inner_zip)
    /\ pc' = "write_src"
    /\ UNCHANGED <<fs, settings, answers, plugin, frame, zip_before,
                   base_path, inner_zip, pending, command, build_result,
                   error, skipped_removal>>

\* _recursive_relative_write(handler_package_path, project.root, zip_file)
WriteSrc ==
    /\ pc = "write_src"
    /\ stages' = Append(stages, "recursive_relative_write")
    /\ base_path' = src_base(project)
    /\ pending' = rglob(fs, handler_package_path)
    /\ pc' = "write_src_write"
    /\ UNCHANGED <<fs, settings, answers, plugin, frame, zip_file, zip_before,
                   inner_zip, command, build_result, error, skipped_removal>>

\* package(): the source tree is written, the call returns
PackageReturn ==
    /\ pc = "write_src_write"
    /\ pending = {}
    /\ pc' = "done"
    /\ UNCHANGED <<fs, settings, answers, plugin, frame, zip_file, zip_before,
                   base_path, inner_zip, pending, command, build_result,
                   error, skipped_removal, stages>>

----------------------------------------------------------------------------
(* init(project) and generate(project)                                     *)

\* What init() writes below project.root, unless it is there already.
InitFiles ==
    { Ent(<<".gitignore">>, "file", <<>>),
      Ent(<<".npmrc">>, "file", <<>>),
      Ent(<<"tsconfig.json">>, "file", <<>>),
      Ent(<<"package.json">>, "file", <<>>),
      Ent(<<"README.md">>, "file", <<>>),
      Ent(<<"template.yml">>, "file", <<>>) }

\* Variant of prompt_for_use_docker that does not record the answer.
prompt_forgetting(d, answer) == d

\* _prompt_for_use_docker(): project.settings after the answer
prompt_for_use_docker(d, answer) == Put(d, "useDocker", validate_no(answer))

\* init(project), answered with answer; project.runtime and the entry points
\* are not modelled
InitCall(p, answer) ==
    /\ pc \in CallStates
    /\ package_root' = root(p) \o <<"src">>
    /\ build_command' = Get(settings[p], "buildCommand", None)
    /\ use_docker' = validate_no(answer)
    /\ settings' = [settings EXCEPT ![p] = prompt_for_use_docker(@, answer)]
    /\ answers' = [answers EXCEPT ![p] = <<validate_no(answer)>>]
    /\ NoFrame
    /\ LET src == root(p) \o <<"src">>
       IN  IF Exists(fs, src) /\ ~is_dir(fs, src)
           THEN /\ fs' = fs
                /\ pc' = "raised"
                /\ error' = Raised("FileExistsError", None, None)
           ELSE /\ fs' = (fs @@ Tree(src, {Ent(<<>>, "dir", <<>>)}))
                         @@ Tree(Resolve(fs, src), {Ent(<<"handlers.ts">>, "file", <<>>)})
                         @@ Tree(root(p), InitFiles)
                /\ pc' = "idle"
                /\ error' = NoError

\* generate(project)
Generate(p) ==
    /\ pc \in CallStates
    /\ init_from_project(p)
    /\ NoFrame
    /\ LET src == root(p) \o <<"src">>
       IN  IF is_dir(fs, src)
           THEN /\ fs' = Tree(Resolve(fs, src), {Ent(<<"models.ts">>, "file", <<>>)}) @@ fs
                /\ pc' = "idle"
                /\ error' = NoError
           ELSE /\ fs' = fs
                /\ pc' = "raised"
                /\ error' = Raised("FileNotFoundError", None, None)
    /\ UNCHANGED <<settings, answers>>

----------------------------------------------------------------------------
(* Packaging one project whose tree the host prepares                      *)

ProjectRoots == [q \in {root(p) : p \in Projects} |-> Entry("dir", <<>>)]

NewPlugin ==
    /\ package_root = NoPath
    /\ use_docker = TRUE
    /\ build_command = None

Idle ==
    /\ pc = "idle"
    /\ project = None
    /\ handler_package_path = NoPath
    /\ build_path = NoPath
    /\ zip_file = <<>>
    /\ zip_before = <<>>
    /\ base_path = NoPath
    /\ inner_zip = <<>>
    /\ pending = {}
    /\ command = None
    /\ build_result = None
    /\ error = NoError
    /\ skipped_removal = FALSE
    /\ stages = <<>>

Init ==
    /\ fs = ProjectRoots
    /\ \E d \in SettingsChoices :
        settings = [p \in Projects |-> IF p = HostProject THEN d ELSE NoSettings]
    /\ answers = [p \in Projects |-> <<>>]
    /\ NewPlugin
    /\ Idle

Next ==
    \/ HostWrite(HostProject)
    \/ PackageStart(HostProject)
    \/ RemoveBuildArtifacts
    \/ Build(BuildOutputs)
    \/ PrePackage
    \/ WriteStep
    \/ PrePackageReturn
    \/ WriteStr
    \/ WriteSrc
    \/ PackageReturn

Spec == Init /\ [][Next]_vars

----------------------------------------------------------------------------
(* _recursive_relative_write(T, T, archive) on a tree the host prepares    *)

TreeRoots == {root(HostProject) \o <<"src">>, root(HostProject) \o <<"src", "lib">>}

\* The archives handed to the call: a new one, and one that already holds an
\* entry under a name the tree may hold too.
Archives ==
    {<<>>, <<FileEntry("handlers.ts", root(HostProject) \o <<"old", "handlers.ts">>)>>}

\* _recursive_relative_write(src_path, src_path, archive), up to the first path
WriteTree(src_path, archive) ==
    /\ pc \in CallStates
    /\ pc' = "write_tree_write"
    /\ zip_file' = archive
    /\ zip_before' = archive
    /\ base_path' = src_path
    /\ pending' = rglob(fs, src_path)
    /\ project' = None
    /\ handler_package_path' = NoPath
    /\ build_path' = NoPath
    /\ inner_zip' = <<>>
    /\ command' = None
    /\ build_result' = None
    /\ error' = NoError
    /\ skipped_removal' = FALSE
    /\ stages' = <<>>
    /\ UNCHANGED <<fs, settings, answers, plugin>>

\* _recursive_relative_write(): rglob is exhausted, the call returns
WriteTreeReturn ==
    /\ pc = "write_tree_write"
    /\ pending = {}
    /\ pc' = "tree_done"
    /\ UNCHANGED <<fs, settings, answers, plugin, frame, zip_file, zip_before,
                   base_path, inner_zip, pending, command, build_result,
                   error, skipped_removal, stages>>

InitWrite ==
    /\ fs = ProjectRoots
    /\ settings = [p \in Projects |-> NoSettings]
    /\ answers = [p \in Projects |-> <<>>]
    /\ NewPlugin
    /\ Idle

NextWrite ==
    \/ HostWrite(HostProject)
    \/ \E src_path \in TreeRoots, archive \in Archives : WriteTree(src_path, archive)
    \/ WriteStep
    \/ WriteTreeReturn

SpecWrite == InitWrite /\ [][NextWrite]_vars

----------------------------------------------------------------------------
(* Any sequence of init, generate and package calls on one plugin          *)

InitCalls ==
    /\ fs = ProjectRoots
    /\ settings \in [Projects -> SettingsChoices]
    /\ answers = [p \in Projects |-> <<>>]
    /\ NewPlugin
    /\ Idle

NextCalls ==
    \/ \E p \in Projects, answer \in Answers : InitCall(p, answer)
    \/ \E p \in Projects : Generate(p)
    \/ \E p \in Projects : PackageStart(p)
    \/ RemoveBuildArtifacts
    \/ Build({HandlerOutput})
    \/ PrePackage
    \/ WriteStep
    \/ PrePackageReturn
    \/ WriteStr
    \/ WriteSrc
    \/ PackageReturn

SpecCalls == InitCalls /\ [][NextCalls]_vars

----------------------------------------------------------------------------
(* Properties of package()                                                 *)

Packaging == project # None

HostRoot == root(HostProject)

\* The paths below dir that are regular files themselves.
RegularFilesUnder(dir) == {q \in rglob(fs, dir) : fs[q].kind = "file"}

\* The paths below dir that path.is_file() accepts: regular files, and
\* symlinks that resolve to one.
FilesUnder(dir) == {q \in rglob(fs, dir) : is_file(fs, q)}

\* archive[from..] holds exactly one entry for each path of files, named by
\* the path relative to base and holding the bytes the path resolves to.
HoldsExactly(archive, from, files, base) ==
    /\ Len(archive) = from - 1 + Cardinality(files)
    /\ \A q \in files :
        Cardinality({i \in from .. Len(archive) :
            archive[i] = FileEntry(Str(relative_to(q, base)), Resolve(fs, q))}) = 1

\* C1: when the build process exits nonzero or /bin/bash cannot be run,
\* package() has raised DownstreamError("local build failed") chained to that
\* failure, and the output archive holds no entry, then or later in the call.
C1_BuildFailureIsDownstreamError ==
    build_result \in {"CalledProcessError", "FileNotFoundError"} =>
        /\ pc = "raised"
        /\ error = Raised("DownstreamError", "local build failed", build_result)
        /\ zip_file = <<>>

C1_Witness ==
    /\ build_result = "CalledProcessError"
    /\ pc = "raised"
    /\ is_file(fs, HostRoot \o <<"src", "handlers.ts">>)
    /\ is_file(fs, HostRoot \o <<"build", MAIN_HANDLER_FUNCTION, "index.js">>)

StageOrder ==
    <<"remove_build_artifacts", "build", "pre_package", "writestr",
      "recursive_relative_write">>

\* The stage of the pipeline at each position of package().
Stage(at) ==
    CASE at = "remove_build_artifacts" -> "NotStarted"
      [] at = "build" -> "ArtifactsCleared"
      [] at \in {"pre_package", "pre_package_write"} -> "Built"
      [] at = "writestr" -> "InnerPackaged"
      [] at \in {"write_src", "write_src_write"} -> "OuterPackaged"
      [] at = "done" -> "Done"
      [] OTHER -> "None"

StageSuccessor ==
    [s \in {"NotStarted", "ArtifactsCleared", "Built", "InnerPackaged",
            "OuterPackaged"} |->
        CASE s = "NotStarted" -> "ArtifactsCleared"
          [] s = "ArtifactsCleared" -> "Built"
          [] s = "Built" -> "InnerPackaged"
          [] s = "InnerPackaged" -> "OuterPackaged"
          [] s = "OuterPackaged" -> "Done"]

\* The steps a call has invoked when it stands at each position.
StepsInvokedAt(at) ==
    CASE at = "remove_build_artifacts" -> 0
      [] at = "build" -> 1
      [] at = "pre_package" -> 2
      [] at \in {"pre_package_write", "writestr"} -> 3
      [] at = "write_src" -> 4
      [] OTHER -> 5

C2_StagesInOrder ==
    Packaging =>
        /\ IsPrefix(stages, StageOrder)
        /\ pc # "raised" => Len(stages) = StepsInvokedAt(pc)
        /\ pc = "raised" => error # NoError
        /\ Len(stages) >= 3 => build_result = "exit0"
        /\ zip_file # <<>> =>
            /\ Len(stages) >= 4
            /\ zip_file[1].name = "ResourceProvider.zip"
        /\ Len(zip_file) > 1 => Len(stages) = 5

C2_StageSteps ==
    /\ Stage(pc) \in DOMAIN StageSuccessor =>
        \/ Stage(pc') \in {Stage(pc), StageSuccessor[Stage(pc)]}
        \/ pc' = "raised"
    /\ Stage(pc) = "None" /\ Packaging' => Stage(pc') \in {"None", "NotStarted"}
    /\ Stage(pc) = "Done" => Stage(pc') \in {"NotStarted", "Done", "None"}
    /\ pc = "raised" =>
        \/ pc' = "raised" /\ stages' = stages /\ zip_file' = zip_file /\ fs' = fs
        \/ pc' \in {"idle", "remove_build_artifacts"} /\ stages' = <<>>

\* C2: a call of package() goes through NotStarted, ArtifactsCleared, Built,
\* InnerPackaged, OuterPackaged, Done in that order, invoking each step at
\* most once and in the fixed order; the build follows the removal, the
\* nested archive follows a successful build, source entries follow
\* ResourceProvider.zip; after a failure no further step of the call runs.
C2_LinearPipeline == [](C2_StagesInOrder) /\ [][C2_StageSteps]_vars

C2_Witness ==
    /\ pc = "raised"
    /\ error.type = "PermissionError"
    /\ stages = StageOrder
    /\ Len(zip_file) = 2
    /\ pending # {}

HandlerDir == build_path \o <<MAIN_HANDLER_FUNCTION>>

SrcDir == root(project) \o <<"src">>

\* The archive is ResourceProvider.zip, holding the files inner of the handler
\* directory, followed by the files outer of the source directory.
PackagedAs(inner, outer) ==
    /\ zip_file # <<>>
    /\ zip_file[1].name = "ResourceProvider.zip"
    /\ zip_file[1].bytes = <<>>
    /\ HoldsExactly(zip_file[1].members, 1, inner, HandlerDir)
    /\ HoldsExactly(zip_file, 2, outer, root(project))

\* C3 as claimed: after a successful package() the archive holds
\* ResourceProvider.zip, whose nested archive holds one entry per regular file
\* of build/TypeFunction, and one entry per regular file under src, and
\* nothing else.
C3_ArchiveOfRegularFiles ==
    pc = "done" => PackagedAs(RegularFilesUnder(HandlerDir), RegularFilesUnder(SrcDir))

\* C3 as amended: after a successful package() the archive holds
\* ResourceProvider.zip, whose nested archive holds one entry per path of
\* build/TypeFunction that is a regular file or a symlink resolving to one,
\* named relative to build/TypeFunction, and one entry per such path under
\* src, named relative to the project root, each with the bytes the path
\* resolves to, and nothing else: no path of build/ outside TypeFunction and
\* no path of the project root outside src/ names an entry.
C3_ArchiveOfFiles ==
    pc = "done" =>
        /\ PackagedAs(FilesUnder(HandlerDir), FilesUnder(SrcDir))
        /\ \A i \in 2 .. Len(zip_file) :
            \E q \in DOMAIN fs :
                /\ IsPrefix(SrcDir, q)
                /\ zip_file[i].name = Str(relative_to(q, root(project)))

C3_Witness ==
    /\ pc = "done"
    /\ Names(zip_file) = {"ResourceProvider.zip", "src/handlers.ts", "src/models.ts"}
    /\ Names(zip_file[1].members) = {"index.js"}
    /\ Exists(fs, build_path \o <<"template.yaml">>)
    /\ Exists(fs, root(project) \o <<"package.json">>)

ContainerFlag(container) == IF container THEN " --use-container" ELSE ""

\* C4 as claimed: the executed command is the override when the settings
\* supply one and "sam build --build-dir {base}/build" otherwise, then the
\* container flag iff useDocker (default true), then TypeFunction.
C4_CommandOverrideVerbatim ==
    command # None =>
        LET s == settings[project]
            first == IF "buildCommand" \in DOMAIN s THEN s["buildCommand"]
                     ELSE "sam build --build-dir " \o project \o "/build"
            container == IF "useDocker" \in DOMAIN s THEN s["useDocker"] ELSE TRUE
        IN  command = first \o ContainerFlag(container) \o " TypeFunction"

\* C4 as amended: the executed command is the override when the settings
\* supply a non-empty one and "sam build --build-dir {base}/build" otherwise
\* (an empty override counts as none), then the container flag iff useDocker
\* (default true), then TypeFunction as the last argument.
C4_CommandComposition ==
    command # None =>
        LET s == settings[project]
            first == IF "buildCommand" \in DOMAIN s /\ s["buildCommand"] # ""
                     THEN s["buildCommand"]
                     ELSE "sam build --build-dir " \o project \o "/build"
            container == IF "useDocker" \in DOMAIN s THEN s["useDocker"] ELSE TRUE
        IN  command = first \o ContainerFlag(container) \o " TypeFunction"

C4_Witness ==
    /\ command = "npm run build TypeFunction"
    /\ settings[project] = Put(Put(NoSettings, "useDocker", FALSE),
                               "buildCommand", "npm run build")

C6_RemovalOfAbsentDir ==
    pc = "remove_build_artifacts" /\ ~Exists(fs, build_path) =>
        /\ pc' = "build"
        /\ fs' = fs
        /\ error' = NoError

C6_BuildDirGone ==
    pc = "build" => \A q \in DOMAIN fs : ~IsPrefix(build_path, q)

\* C6: when the build directory is absent at the removal step, the step
\* raises nothing, changes nothing and hands over to the build; whenever the
\* build is about to be invoked, nothing is left at or below the build path.
C6_IdempotentRemoval == [](C6_BuildDirGone) /\ [][C6_RemovalOfAbsentDir]_vars

C6_Witness ==
    /\ pc = "build"
    /\ skipped_removal
    /\ stages = <<"remove_build_artifacts">>

\* C8: during package() no two entries of the output archive share a path;
\* ResourceProvider.zip is the first entry and no later entry bears its name.
C8_NoSharedPath ==
    Packaging =>
        /\ \A i, j \in 1 .. Len(zip_file) :
            zip_file[i].name = zip_file[j].name => i = j
        /\ \A i \in 1 .. Len(zip_file) :
            zip_file[i].name = "ResourceProvider.zip" <=> i = 1

C8_Witness ==
    /\ pc = "done"
    /\ Len(zip_file) = 3
    /\ "src/ResourceProvider.zip" \in Names(zip_file)

\* C9: when the build succeeded and build/TypeFunction is missing or holds
\* nothing, the nested archive is empty, ResourceProvider.zip is still
\* written with zero nested entries, and the call fails only if a source
\* file cannot be read.
C9_EmptyBuildOutput ==
    Packaging /\ build_result = "exit0" /\ rglob(fs, HandlerDir) = {} =>
        /\ inner_zip = <<>>
        /\ Len(stages) >= 4 =>
            /\ zip_file # <<>>
            /\ zip_file[1] = BlobEntry("ResourceProvider.zip", <<>>)
        /\ pc = "raised" =>
            /\ stages = StageOrder
            /\ error.type = "PermissionError"
        /\ pc = "done" => HoldsExactly(zip_file, 2, FilesUnder(SrcDir), root(project))

C9_Witness ==
    /\ pc = "done"
    /\ build_result = "exit0"
    /\ ~Exists(fs, HandlerDir)
    /\ zip_file[1] = BlobEntry("ResourceProvider.zip", <<>>)
    /\ Len(zip_file) = 3

----------------------------------------------------------------------------
(* Properties of _recursive_relative_write()                               *)

WritingTree == pc \in {"write_tree_write", "tree_done"}

\* The names of the entries the running call has written.
Written == {zip_file[i].name : i \in (Len(zip_before) + 1) .. Len(zip_file)}

\* The paths rglob has yielded so far.
Visited == rglob(fs, base_path) \ pending

\* C5 as claimed: writeTree(T, T, archive) leaves one entry per regular file
\* below T, named relative to T, none for a directory, after the entries the
\* archive already held.
C5_OneEntryPerRegularFile ==
    pc = "tree_done" =>
        /\ IsPrefix(zip_before, zip_file)
        /\ HoldsExactly(zip_file, Len(zip_before) + 1,
                        RegularFilesUnder(base_path), base_path)

\* C5 as amended: writeTree(T, T, archive) leaves exactly one entry per path
\* below T, at any depth, that is a regular file or a symlink resolving to
\* one, named by that path relative to T and holding the bytes it resolves
\* to; no directory gets an entry; the entries the archive already held stay
\* first and unchanged, at every step of the call.
C5_OneEntryPerFile ==
    /\ WritingTree \/ (pc = "raised" /\ ~Packaging) => IsPrefix(zip_before, zip_file)
    /\ pc = "tree_done" =>
        HoldsExactly(zip_file, Len(zip_before) + 1, FilesUnder(base_path), base_path)

C5_Witness ==
    /\ pc = "tree_done"
    /\ zip_before # <<>>
    /\ Written = {"handlers.ts", "lib/util.ts"}
    /\ Len(zip_file) = 3

\* C7 as claimed: no path that is not a regular file itself (a directory, a
\* symlink, a special file) yields an entry.
C7_OnlyRegularFilesWritten ==
    WritingTree =>
        \A q \in Visited :
            fs[q].kind # "file" => Str(relative_to(q, base_path)) \notin Written

\* C7 as amended: a directory, a special file, a dangling symlink and a
\* symlink to a directory yield no entry and no failure; a symlink that
\* resolves to a regular file yields an entry under the symlink's own path,
\* as a regular file does.
C7_NonFilesSkipped ==
    /\ WritingTree =>
        \A q \in Visited :
            Str(relative_to(q, base_path)) \in Written <=> is_file(fs, q)
    /\ pc = "raised" /\ ~Packaging => \E q \in pending : is_file(fs, q)

C7_Witness ==
    /\ pc = "tree_done"
    /\ base_path = root(HostProject) \o <<"src">>
    /\ Exists(fs, base_path \o <<"link">>)
    /\ fs[base_path \o <<"link">>] = Entry("symlink", base_path \o <<"handlers.ts">>)
    /\ Exists(fs, base_path \o <<"pipe">>)
    /\ Written = {"handlers.ts", "link"}

----------------------------------------------------------------------------
(* Properties of the plugin's fields across calls                          *)

\* C10: whatever calls came before, a package(project, ...) call works with
\* the container flag, override command and package root of its own project
\* as its settings stand (useDocker defaulting to true, buildCommand to
\* none), and so with the answer init() last recorded for that project.
C10_FieldsOfThisCall ==
    Packaging =>
        /\ use_docker = Get(settings[project], "useDocker", TRUE)
        /\ build_command = Get(settings[project], "buildCommand", None)
        /\ package_root = <<project, "src">>
        /\ handler_package_path = <<project, "src">>
        /\ build_path = <<project, "build">>
        /\ answers[project] # <<>> => use_docker = answers[project][1]
        /\ command # None =>
            command = build_command_line(<<project>>,
                        Get(settings[project], "buildCommand", None),
                        IF answers[project] # <<>> THEN answers[project][1]
                        ELSE Get(settings[project], "useDocker", TRUE))
        /\ Len(stages) = 5 => base_path = <<project>>

C10_Witness ==
    /\ pc = "done"
    /\ project = "p2"
    /\ answers["p2"] = <<FALSE>>
    /\ answers["p1"] = <<TRUE>>
    /\ command = "sam build --build-dir p2/build TypeFunction"
    /\ Get(settings["p1"], "buildCommand", None) = "npm run build"
    /\ Names(zip_file) = {"ResourceProvider.zip", "src/handlers.ts", "src/models.ts"}

====
